---- MODULE Spec2Model ----
(***************************************************************************)
(* Model of the rollout analytics of orbital-frontend: the useRollout hook *)
(* of src/App.jsx (src/unnamed/part_004, lines 67-140), its per-episode    *)
(* analytics pass with debounced capture, and the helpers it calls (Spec); *)
(* and of the playback state of the App component (lines 386-479), its     *)
(* animation tick and hotkeys, the Episode card (lines 248-274) and the    *)
(* planets of the scene, src/src/Scene3D.jsx lines 78-131 (SpecApp).       *)
(*                                                                         *)
(* Numbers.  JavaScript numbers are modelled as fixed-point integers in    *)
(* thousandths (1.0 is 1000, 0.05 is 50, 0.02 is 20).  The inputs drawn    *)
(* below are chosen so that every square root and quotient the pass        *)
(* computes on them is exact in thousandths.  A quotient that is reported  *)
(* as a ratio (pctInTol) is kept as a reduced fraction <<num, den>>.       *)
(*                                                                         *)
(* Objects.  A frame is a record whose optional fields (thrust, reward,    *)
(* pos_err, v_tan_err) are present or absent in its DOMAIN, as the keys of *)
(* the JSON object are.  null is the empty sequence <<>>, a number n that  *)
(* may be null is <<n>>.  Frame indices are 0-based as in the code.        *)
(***************************************************************************)
EXTENDS Integers, Sequences, FiniteSets, TLC

VARIABLES
    pc,          \* position of the effect's async body: loading, frames, done, failed
    rollout,     \* what loadRollout(url) resolves to: a sequence of episodes
    episodes,    \* React state set by setEpisodes
    metrics,     \* React state set by setMetrics
    mets,        \* the array eps.map is building
    ep,          \* 1-based position of eps.map in eps
    idx,         \* 0-based index of frames.forEach in the current episode
    loc,         \* the locals of the map callback (rewardSum, fuelSum, ...)
    err,         \* the error the catch block logged: none, fetch, TypeError
    ab,          \* App state: the policy shown, "A" or "B"
    split,       \* App state: split view on
    activeEp,    \* App state: 0-based index of the selected episode
    frameIdx,    \* App state: playback position, in thousandths of a frame
    playing,     \* App state: playback running
    speed,       \* App state: playback speed, in thousandths
    tDays,       \* App state: solar time, in thousandths of a day
    planets,     \* App state: the planet records
    epsA,        \* episodes of the hook instance for /rollouts/run_01.json
    epsB,        \* episodes of the hook instance for /rollouts/run_ppo.json
    keydowns,    \* parity of the number of keydown events handled
    effects,     \* the load effects started so far: url, cancelled, phase
    rolloutUrlState, \* single-rollout App state: the selected rollout URL
    mission,     \* MissionModal state: the mission being edited
    loadingAI,   \* MissionModal state: a suggestion request is running
    tab,         \* MissionModal state: "manual" or "ai"
    ask          \* the askAI call in flight: null, or the mission its closure holds

hookVars == <<pc, rollout, episodes, metrics, mets, ep, idx, loc, err>>
appVars == <<ab, split, activeEp, frameIdx, playing, speed, tDays, planets, epsA, epsB, keydowns>>
loadVars == <<effects, rolloutUrlState>>
modalVars == <<mission, loadingAI, tab, ask>>
vars == <<hookVars, appVars, loadVars, modalVars>>

(***************************************************************************)
(* Numbers                                                                  *)
(***************************************************************************)
Milli == 10 * 10 * 10

Max(a, b) == IF a >= b THEN a ELSE b
Abs(x) == IF x < 0 THEN 0 - x ELSE x

RECURSIVE SqrtIter(_, _, _)
SqrtIter(n, lo, hi) ==
    IF lo >= hi THEN lo
    ELSE LET mid == (lo + hi + 1) \div 2
         IN  IF mid * mid <= n THEN SqrtIter(n, mid, hi) ELSE SqrtIter(n, lo, mid - 1)

\* Math.sqrt on a non-negative number (floor of the root; exact on the inputs used)
Sqrt(n) == SqrtIter(n, 0, 46340)

\* Math.hypot(...vec) for a 3-vector
Hypot(vec) == Sqrt(vec[1] * vec[1] + vec[2] * vec[2] + vec[3] * vec[3])

RECURSIVE Gcd(_, _)
Gcd(a, b) == IF b = 0 THEN a ELSE Gcd(b, a % b)

\* a / b as an exact ratio, reduced
Ratio(a, b) == LET g == Gcd(a, b) IN <<a \div g, b \div g>>

(***************************************************************************)
(* Program constants                                                        *)
(***************************************************************************)
tolR == 50
tolV == 50
thrustSpike == 20
K == 30
mu == 1000
R0 == 1000

Null == <<>>

(***************************************************************************)
(* stationKeepingErrors(frame, R0), part_004 lines 54-65                    *)
(***************************************************************************)
\* Math.sqrt(mu / Math.max(1e-9, R0)) for R0 <= 1e-9: sqrt(1e9) = 31622.776
vCircAtEpsilon == 31622776

\* Variant with the operands of the subtraction under the root swapped.
stationKeepingErrorsSwapped(frame, r0) ==
    LET r == frame.r
        v == frame.v
        rmag == Hypot(r)
        r_hat == [i \in 1..3 |-> IF rmag = 0 THEN 0 ELSE (r[i] * Milli) \div rmag]
        v_rad == (v[1] * r_hat[1] + v[2] * r_hat[2] + v[3] * r_hat[3]) \div Milli
        vmag == Hypot(v)
        v_tan == Sqrt(Max(0, v_rad * v_rad - vmag * vmag))
        v_circ == IF r0 > 0 THEN Sqrt((mu * Milli * Milli) \div r0) ELSE vCircAtEpsilon
    IN  [rmag |-> rmag, pos_err |-> rmag - r0, v_rad |-> v_rad, v_tan |-> v_tan,
         v_tan_err |-> v_tan - v_circ, v_circ |-> v_circ]

\* Variant that falls back to the x axis as the radial direction at the origin.
stationKeepingErrorsAxisFallback(frame, r0) ==
    LET r == frame.r
        v == frame.v
        rmag == Hypot(r)
        r_hat == [i \in 1..3 |-> IF rmag = 0 THEN (IF i = 1 THEN Milli ELSE 0)
                                 ELSE (r[i] * Milli) \div rmag]
        v_rad == (v[1] * r_hat[1] + v[2] * r_hat[2] + v[3] * r_hat[3]) \div Milli
        vmag == Hypot(v)
        v_tan == Sqrt(Max(0, vmag * vmag - v_rad * v_rad))
        v_circ == IF r0 > 0 THEN Sqrt((mu * Milli * Milli) \div r0) ELSE vCircAtEpsilon
    IN  [rmag |-> rmag, pos_err |-> rmag - r0, v_rad |-> v_rad, v_tan |-> v_tan,
         v_tan_err |-> v_tan - v_circ, v_circ |-> v_circ]

stationKeepingErrors(frame, r0) ==
    LET r == frame.r
        v == frame.v
        rmag == Hypot(r)
        \* r[i] / (rmag + 1e-9): 0 at the origin, r[i] / rmag elsewhere
        r_hat == [i \in 1..3 |-> IF rmag = 0 THEN 0 ELSE (r[i] * Milli) \div rmag]
        v_rad == (v[1] * r_hat[1] + v[2] * r_hat[2] + v[3] * r_hat[3]) \div Milli
        vmag == Hypot(v)
        v_tan == Sqrt(Max(0, vmag * vmag - v_rad * v_rad))
        v_circ == IF r0 > 0 THEN Sqrt((mu * Milli * Milli) \div r0) ELSE vCircAtEpsilon
    IN  [rmag |-> rmag, pos_err |-> rmag - r0, v_rad |-> v_rad, v_tan |-> v_tan,
         v_tan_err |-> v_tan - v_circ, v_circ |-> v_circ]

(***************************************************************************)
(* The per-frame computations of the analytics pass, part_004 lines 93-104  *)
(***************************************************************************)
\* line 93: f.thrust ? Math.hypot(...f.thrust) : 0
ThrOf(f) == IF "thrust" \in DOMAIN f THEN Hypot(f.thrust) ELSE 0

\* Variant with || for ??: a precomputed 0 is recomputed.
PosErrOfFalsy(f) ==
    IF "pos_err" \in DOMAIN f /\ f.pos_err # 0 THEN f.pos_err ELSE Hypot(f.r) - R0

\* line 94: f.pos_err ?? (Math.hypot(...f.r) - 1.0)
PosErrOf(f) == IF "pos_err" \in DOMAIN f THEN f.pos_err ELSE Hypot(f.r) - R0

\* lines 95-98: f.v_tan_err ?? stationKeepingErrors(f, 1.0).v_tan_err
VtanErrOf(f) ==
    IF "v_tan_err" \in DOMAIN f THEN f.v_tan_err ELSE stationKeepingErrors(f, R0).v_tan_err

\* line 100: f.reward ?? 0
RewardOf(f) == IF "reward" \in DOMAIN f THEN f.reward ELSE 0

\* Variant with >= for >.
IsSpikeInclusive(thr) == thr >= thrustSpike

\* line 102: thr > thrustSpike
IsSpike(thr) == thr > thrustSpike

\* line 104: posErr <= tolR && Math.abs(vtanErr) <= tolV
InTol(posErr, vtanErr) == posErr <= tolR /\ Abs(vtanErr) <= tolV

\* Variants of the capture test with one conjunct dropped.
CapturesNoExcursion(seenOut, capturedAt, tolStreak) == capturedAt = Null /\ tolStreak >= K
CapturesAgain(seenOut, capturedAt, tolStreak) == seenOut /\ tolStreak >= K

\* Variant that declares capture one frame before the streak is K long.
CapturesOneEarly(seenOut, capturedAt, tolStreak) ==
    seenOut /\ capturedAt = Null /\ tolStreak >= K - 1

\* line 108: seenOut && capturedAt == null && tolStreak >= K
Captures(seenOut, capturedAt, tolStreak) == seenOut /\ capturedAt = Null /\ tolStreak >= K

\* Variant: the frame at which the streak completes.
CapturedIndexAtCompletion(i) == i

\* line 109: idx - K + 1
CapturedIndex(i) == i - K + 1

\* Variant in which the spread of a missing thrust is not guarded.
ThrowsOnMissingThrust(f) ==
    \/ "thrust" \notin DOMAIN f
    \/ "pos_err" \notin DOMAIN f /\ "r" \notin DOMAIN f
    \/ "v_tan_err" \notin DOMAIN f /\ ("r" \notin DOMAIN f \/ "v" \notin DOMAIN f)

\* The loop body raises a TypeError when it spreads or indexes a missing r or v
\* (line 94 reads f.r when pos_err is absent, lines 56-60 read r and v when
\* v_tan_err is absent); the optional thrust and reward are guarded.
Throws(f) ==
    \/ "pos_err" \notin DOMAIN f /\ "r" \notin DOMAIN f
    \/ "v_tan_err" \notin DOMAIN f /\ ("r" \notin DOMAIN f \/ "v" \notin DOMAIN f)

(***************************************************************************)
(* The map callback, part_004 lines 80-127                                  *)
(***************************************************************************)
\* lines 81-90: the locals at the start of an episode
InitLoc ==
    [rewardSum |-> 0, fuelSum |-> 0, capturedAt |-> Null, inTolCount |-> 0,
     events |-> <<>>,
     spark |-> [reward |-> <<>>, fuel |-> <<>>, posErr |-> <<>>, vTanErr |-> <<>>],
     tolStreak |-> 0, seenOut |-> FALSE]

\* Variant of the in-tolerance branch that counts a frame only after an excursion.
InTolBranchCountAfterOut(l, evs, i) ==
    LET streak == l.tolStreak + 1
        cap == Captures(l.seenOut, l.capturedAt, streak)
    IN  [inTolCount |-> IF l.seenOut THEN l.inTolCount + 1 ELSE l.inTolCount,
         tolStreak |-> streak,
         capturedAt |-> IF cap THEN <<CapturedIndex(i)>> ELSE l.capturedAt,
         events |-> IF cap
                    THEN Append(evs, [t |-> CapturedIndex(i), type |-> "entered_tol"])
                    ELSE evs,
         seenOut |-> l.seenOut]

\* Variant that drops the entered_tol event when another event has its index.
InTolBranchDedup(l, evs, i) ==
    LET streak == l.tolStreak + 1
        cap == Captures(l.seenOut, l.capturedAt, streak)
    IN  [inTolCount |-> l.inTolCount + 1,
         tolStreak |-> streak,
         capturedAt |-> IF cap THEN <<CapturedIndex(i)>> ELSE l.capturedAt,
         events |-> IF cap /\ \A j \in 1..Len(evs) : evs[j].t # CapturedIndex(i)
                    THEN Append(evs, [t |-> CapturedIndex(i), type |-> "entered_tol"])
                    ELSE evs,
         seenOut |-> l.seenOut]

\* lines 105-111: the branch taken by an in-tolerance frame; evs is the event
\* list after line 102
InTolBranch(l, evs, i) ==
    LET streak == l.tolStreak + 1
        cap == Captures(l.seenOut, l.capturedAt, streak)
    IN  [inTolCount |-> l.inTolCount + 1,
         tolStreak |-> streak,
         capturedAt |-> IF cap THEN <<CapturedIndex(i)>> ELSE l.capturedAt,
         events |-> IF cap
                    THEN Append(evs, [t |-> CapturedIndex(i), type |-> "entered_tol"])
                    ELSE evs,
         seenOut |-> l.seenOut]

\* Variant of the out-of-tolerance branch that keeps the streak.
OutTolBranchKeepsStreak(l, evs) ==
    [inTolCount |-> l.inTolCount, tolStreak |-> l.tolStreak, capturedAt |-> l.capturedAt,
     events |-> evs, seenOut |-> TRUE]

\* lines 112-115: the branch taken by an out-of-tolerance frame
OutTolBranch(l, evs) ==
    [inTolCount |-> l.inTolCount, tolStreak |-> 0, capturedAt |-> l.capturedAt,
     events |-> evs, seenOut |-> TRUE]

\* lines 92-121: one iteration of frames.forEach((f, idx) => ...)
Step(l, f, i) ==
    LET thr == ThrOf(f)
        posErr == PosErrOf(f)
        vtanErr == VtanErrOf(f)
        evs == IF IsSpike(thr) THEN Append(l.events, [t |-> i, type |-> "thrust"])
               ELSE l.events
        b == IF InTol(posErr, vtanErr) THEN InTolBranch(l, evs, i) ELSE OutTolBranch(l, evs)
    IN  [rewardSum |-> l.rewardSum + RewardOf(f),
         fuelSum |-> l.fuelSum + thr,
         capturedAt |-> b.capturedAt,
         inTolCount |-> b.inTolCount,
         events |-> b.events,
         spark |-> [reward |-> Append(l.spark.reward, [x |-> i, y |-> RewardOf(f)]),
                    fuel |-> Append(l.spark.fuel, [x |-> i, y |-> thr]),
                    posErr |-> Append(l.spark.posErr, [x |-> i, y |-> posErr]),
                    vTanErr |-> Append(l.spark.vTanErr, [x |-> i, y |-> vtanErr])],
         tolStreak |-> b.tolStreak,
         seenOut |-> b.seenOut]

\* Variant without the guard: 0 / 0 for an empty episode (NaN).
PctInTolUnguarded(count, len) == IF len = 0 THEN <<0, 0>> ELSE Ratio(count, len)

\* line 124: len > 0 ? inTolCount / len : 0
PctInTol(count, len) == IF len > 0 THEN Ratio(count, len) ELSE <<0, 1>>

\* lines 123-126: the value the callback returns for one episode
EpisodeMetrics(l, frames) ==
    [rewardSum |-> l.rewardSum, fuelSum |-> l.fuelSum, capturedAt |-> l.capturedAt,
     events |-> l.events, len |-> Len(frames),
     pctInTol |-> PctInTol(l.inTolCount, Len(frames)), spark |-> l.spark]

(***************************************************************************)
(* Inputs: the rollouts loadRollout may resolve to                          *)
(***************************************************************************)
MaxRuns == 4
MaxEpisodes == 2

Rep(f, n) == [j \in 1..n |-> f]

\* an optional field: absent, or present with one of the values
Opt(name, vals) == {<<>>} \cup {name :> x : x \in vals}

\* Frames of the long episodes: on the target circle at circular speed (in
\* tolerance) or at twice the radius (out of tolerance), coasting or thrusting.
FIn == [r |-> <<1000, 0, 0>>, v |-> <<0, 1000, 0>>]
FOut == [r |-> <<2000, 0, 0>>, v |-> <<0, 1000, 0>>]
FInSpike == [r |-> <<1000, 0, 0>>, v |-> <<0, 1000, 0>>, thrust |-> <<30, 0, 0>>, reward |-> 5]
FOutSpike == [r |-> <<2000, 0, 0>>, v |-> <<0, 1000, 0>>, thrust |-> <<0, 0, 25>>, reward |-> -3]

\* A run is one frame, or K in-tolerance frames; an episode of the long family
\* is up to MaxRuns runs.
RunTypes == ({FIn} \X {1, K}) \cup ({FOut, FInSpike, FOutSpike} \X {1})
RunSeqs == UNION {[1..n -> RunTypes] : n \in 0..MaxRuns}

RECURSIVE Flatten(_)
Flatten(rs) == IF rs = <<>> THEN <<>> ELSE Rep(rs[1][1], rs[1][2]) \o Flatten(Tail(rs))

RunEpisodes == {Flatten(rs) : rs \in RunSeqs}

\* The two 100-frame scenarios of the specification's test list.
ScenarioEpisodes == {Rep(FOut, 50) \o Rep(FIn, 50), Rep(FOut, 60) \o Rep(FIn, 40)}

\* Single frames with every combination of the optional fields.
FrameKinds ==
    {[r |-> r, v |-> v] @@ th @@ rw @@ pe @@ ve :
        r \in {<<1000, 0, 0>>, <<1050, 0, 0>>, <<1051, 0, 0>>, <<600, 800, 0>>, <<0, 0, 0>>},
        v \in {<<0, 1000, 0>>, <<0, 950, 0>>, <<0, 1051, 0>>, <<1000, 0, 0>>},
        th \in Opt("thrust", {<<10, 0, 0>>, <<20, 0, 0>>, <<30, 0, 0>>, <<18, 24, 0>>, <<0, 0, 0>>}),
        rw \in Opt("reward", {0, 5, -3}),
        pe \in Opt("pos_err", {0, 50, 51, -900}),
        ve \in Opt("v_tan_err", {0, -50, 51})}

\* Frames that lack the required r or v.
MalformedFrames ==
    {[v |-> <<0, 1000, 0>>], [r |-> <<1000, 0, 0>>],
     [v |-> <<0, 1000, 0>>, pos_err |-> 10], [pos_err |-> 10, v_tan_err |-> 0],
     [r |-> <<1000, 0, 0>>, v_tan_err |-> 0]}

ShortEpisodes == {<<f>> : f \in FrameKinds \cup MalformedFrames}

\* Thrust above, below and at the spike threshold.
ThrustEpisode ==
    <<[r |-> <<1000, 0, 0>>, v |-> <<0, 1000, 0>>, thrust |-> <<30, 0, 0>>],
      [r |-> <<1000, 0, 0>>, v |-> <<0, 1000, 0>>, thrust |-> <<10, 0, 0>>],
      [r |-> <<1000, 0, 0>>, v |-> <<0, 1000, 0>>, thrust |-> <<20, 0, 0>>]>>

\* Episodes that are combined into rollouts of several episodes.
BatchEpisodes ==
    {<<>>, <<FOut>>, <<FInSpike>>, Rep(FIn, K), <<FOut>> \o Rep(FIn, K),
     <<FOutSpike, FIn, FInSpike>>, ThrustEpisode, <<FIn, [r |-> <<1000, 0, 0>>]>>}

Rollouts ==
    {<<e>> : e \in RunEpisodes \cup ScenarioEpisodes \cup ShortEpisodes}
    \cup UNION {[1..n -> BatchEpisodes] : n \in 0..MaxEpisodes}

(***************************************************************************)
(* The effect of useRollout, part_004 lines 72-137                          *)
(***************************************************************************)
\* part_004 lines 388-411: the useState initial values of App
AppMounted ==
    /\ ab = "A"
    /\ split = FALSE
    /\ activeEp = 0
    /\ frameIdx = 0
    /\ playing = TRUE
    /\ speed = Milli
    /\ tDays = 0
    /\ planets = <<>>
    /\ epsA = <<>>
    /\ epsB = <<>>
    /\ keydowns = 0

\* no load effect of the other components is modelled as running
NoLoads ==
    /\ effects = <<>>
    /\ rolloutUrlState = "/rollouts/run_01.json"

\* MissionModal.jsx lines 14-28: the useState initial values
ModalMounted ==
    /\ tab = "manual"
    /\ loadingAI = FALSE
    /\ mission = [name |-> "Station keeping @ 1 AU", r_target |-> Milli,
                  reward_weights |-> [w_pos |-> Milli, w_fuel |-> 50]]
    /\ ask = Null

Init ==
    /\ pc = "loading"
    /\ rollout \in Rollouts
    /\ episodes = <<>>
    /\ metrics = <<>>
    /\ mets = <<>>
    /\ ep = 1
    /\ idx = 0
    /\ loc = InitLoc
    /\ err = "none"
    /\ AppMounted
    /\ NoLoads
    /\ ModalMounted

\* lines 76-80: loadRollout resolves; setEpisodes(eps); eps.map starts
LoadResolve ==
    /\ pc = "loading"
    /\ pc' = "frames"
    /\ episodes' = rollout
    /\ mets' = <<>>
    /\ ep' = 1
    /\ idx' = 0
    /\ loc' = InitLoc
    /\ UNCHANGED <<rollout, metrics, err>>
    /\ UNCHANGED <<appVars, loadVars, modalVars>>

\* lines 130-134: the catch block, entered with the error e
Catch(e) ==
    /\ pc' = "failed"
    /\ err' = e
    /\ episodes' = <<>>
    /\ metrics' = <<>>
    /\ UNCHANGED <<rollout, mets, ep, idx, loc>>
    /\ UNCHANGED <<appVars, loadVars, modalVars>>

\* lines 29-30, 130-134: loadRollout rejects
LoadFail ==
    /\ pc = "loading"
    /\ Catch("fetch")

\* Variant in which the loop caches the computed pos_err on the frame object,
\* which the episodes state shares with eps.
ProcessFrameCaching ==
    /\ pc = "frames"
    /\ ep <= Len(rollout)
    /\ idx < Len(rollout[ep])
    /\ ~Throws(rollout[ep][idx + 1])
    /\ loc' = Step(loc, rollout[ep][idx + 1], idx)
    /\ idx' = idx + 1
    /\ rollout' = [rollout EXCEPT ![ep][idx + 1] =
                       ("pos_err" :> PosErrOf(rollout[ep][idx + 1])) @@ rollout[ep][idx + 1]]
    /\ episodes' = rollout'
    /\ UNCHANGED <<pc, metrics, mets, ep, err>>
    /\ UNCHANGED <<appVars, loadVars, modalVars>>

\* lines 92-121: frames.forEach visits the next frame
ProcessFrame ==
    /\ pc = "frames"
    /\ ep <= Len(rollout)
    /\ idx < Len(rollout[ep])
    /\ ~Throws(rollout[ep][idx + 1])
    /\ loc' = Step(loc, rollout[ep][idx + 1], idx)
    /\ idx' = idx + 1
    /\ UNCHANGED <<pc, rollout, episodes, metrics, mets, ep, err>>
    /\ UNCHANGED <<appVars, loadVars, modalVars>>

\* lines 93-98, 130-134: the loop body raises on the next frame
FrameThrows ==
    /\ pc = "frames"
    /\ ep <= Len(rollout)
    /\ idx < Len(rollout[ep])
    /\ Throws(rollout[ep][idx + 1])
    /\ Catch("TypeError")

\* Variant in which the streak and the excursion flag outlive the episode.
FinishEpisodeKeepStreak ==
    /\ pc = "frames"
    /\ ep <= Len(rollout)
    /\ idx = Len(rollout[ep])
    /\ mets' = Append(mets, EpisodeMetrics(loc, rollout[ep]))
    /\ ep' = ep + 1
    /\ idx' = 0
    /\ loc' = [InitLoc EXCEPT !.tolStreak = loc.tolStreak, !.seenOut = loc.seenOut]
    /\ UNCHANGED <<pc, rollout, episodes, metrics, err>>
    /\ UNCHANGED <<appVars, loadVars, modalVars>>

\* lines 123-126, then 81-90 for the next episode: the callback returns
FinishEpisode ==
    /\ pc = "frames"
    /\ ep <= Len(rollout)
    /\ idx = Len(rollout[ep])
    /\ mets' = Append(mets, EpisodeMetrics(loc, rollout[ep]))
    /\ ep' = ep + 1
    /\ idx' = 0
    /\ loc' = InitLoc
    /\ UNCHANGED <<pc, rollout, episodes, metrics, err>>
    /\ UNCHANGED <<appVars, loadVars, modalVars>>

\* line 129: setMetrics(mets)
SetMetrics ==
    /\ pc = "frames"
    /\ ep > Len(rollout)
    /\ metrics' = mets
    /\ pc' = "done"
    /\ UNCHANGED <<rollout, episodes, mets, ep, idx, loc, err>>
    /\ UNCHANGED <<appVars, loadVars, modalVars>>

Next ==
    \/ LoadResolve
    \/ LoadFail
    \/ ProcessFrame
    \/ FrameThrows
    \/ FinishEpisode
    \/ SetMetrics

Spec == Init /\ [][Next]_vars

(***************************************************************************)
(* Non-finite numbers.  A value that JavaScript arithmetic can make        *)
(* non-finite is a record: k is "fin" (with the value v in thousandths),   *)
(* "NaN", "Infinity" or "-Infinity".                                        *)
(***************************************************************************)
Fin(x) == [k |-> "fin", v |-> x]
NaN == [k |-> "NaN", v |-> 0]
NegInfinity == [k |-> "-Infinity", v |-> 0]

\* Number.isFinite
isFinite(x) == x.k = "fin"

Min(a, b) == IF a <= b THEN a ELSE b

\* part_004 line 12
cross(a, b) ==
    <<(a[2] * b[3] - a[3] * b[2]) \div Milli,
      (a[3] * b[1] - a[1] * b[3]) \div Milli,
      (a[1] * b[2] - a[2] * b[1]) \div Milli>>

\* part_004 lines 14-25.  mu / rmag with rmag = 0 is Infinity, so energy is
\* -Infinity and a = -mu / -Infinity is 0; r[i] / rmag is 0 / 0 = NaN, so e
\* is NaN.  With energy = 0 exactly, a = -mu / 0 is -Infinity.
orbitalElements(r, v, m) ==
    LET rmag == Hypot(r)
        vmag == Hypot(v)
        h == cross(r, v)
        hmag == Hypot(h)
        energy == IF rmag = 0 THEN NegInfinity
                  ELSE Fin((vmag * vmag) \div (2 * Milli) - (m * Milli) \div rmag)
        a == IF ~isFinite(energy) THEN Fin(0)
             ELSE IF energy.v = 0 THEN NegInfinity
             ELSE Fin((0 - m * Milli) \div (2 * energy.v))
        vxh == cross(v, h)
        evec == [i \in 1..3 |-> (vxh[i] * Milli) \div m - (r[i] * Milli) \div rmag]
        e == IF rmag = 0 THEN NaN ELSE Fin(Hypot(evec))
    IN  [a |-> a, e |-> e, hmag |-> Fin(hmag), energy |-> energy]

\* Number.prototype.toFixed(3): the digits of a finite number, else the text
\* "NaN", "Infinity" or "-Infinity"
toFixed(x) == IF isFinite(x) THEN <<"digits", x.v>> ELSE <<x.k>>

\* the dash the Episode card shows for a missing value
Placeholder == <<"--">>

\* part_004 lines 266-271: the four value cells of the Episode card
EpisodeCard(elements) ==
    [f \in {"a", "e", "hmag", "energy"} |->
        IF elements # Null THEN toFixed(elements[1][f]) ELSE Placeholder]

(***************************************************************************)
(* The App component, part_004 lines 386-479                                *)
(***************************************************************************)
MaxTDays == 250

\* frame gaps of requestAnimationFrame in milliseconds, speeds of the slider
Dts == {25, 50}
Speeds == {500, Milli}

\* frames the rollouts of the playback are made of: on the target orbit, at
\* the origin, and with specific energy 0.5 * 1 - 1 / 2 = 0
FOrigin == [r |-> <<0, 0, 0>>, v |-> <<0, 1000, 0>>]
FParabolic == [r |-> <<2000, 0, 0>>, v |-> <<0, 1000, 0>>]

\* what run_01.json and run_ppo.json resolve to
RolloutsA ==
    {<<>>,
     <<<<FIn, FParabolic, FOrigin>>>>,
     <<<<FIn>>, <<FIn, FIn, FIn>>>>}
RolloutsB == {<<>>, <<<<FIn, FIn>>>>}

\* lines 420-421
eps == IF ab = "A" THEN epsA ELSE epsB
frames == IF activeEp < Len(eps) THEN eps[activeEp + 1] ELSE <<>>

\* Math.floor on thousandths
floor(x) == x - (x % Milli)

\* line 427: frames[Math.floor(frameIdx)] || null
frame ==
    LET i == floor(frameIdx) \div Milli
    IN  IF 0 <= i /\ i < Len(frames) THEN <<frames[i + 1]>> ELSE Null

\* line 431
elements == IF frame # Null THEN <<orbitalElements(frame[1].r, frame[1].v, mu)>> ELSE Null

\* epsX[activeEp]?.length || 0
LengthAt(es) == IF activeEp < Len(es) THEN Len(es[activeEp + 1]) ELSE 0

\* line 443
activeFrames == IF split THEN Max(LengthAt(epsA), LengthAt(epsB)) ELSE Len(frames)

\* Variant of the tick that advances the position whether playing or not.
TickIgnoresPause(dt) ==
    /\ tDays + (dt * 10 * speed) \div Milli <= MaxTDays
    /\ frameIdx' = IF activeFrames > 0
                   THEN Min((activeFrames - 1) * Milli, frameIdx + (dt * 60 * speed) \div Milli)
                   ELSE frameIdx
    /\ tDays' = tDays + (dt * 10 * speed) \div Milli
    /\ UNCHANGED <<ab, split, activeEp, playing, speed, planets, epsA, epsB, keydowns>>
    /\ UNCHANGED <<hookVars, loadVars, modalVars>>

\* lines 440-450: one animation frame, dt milliseconds after the last one
Tick(dt) ==
    /\ tDays + (dt * 10 * speed) \div Milli <= MaxTDays
    /\ frameIdx' = IF playing /\ activeFrames > 0
                   THEN Min((activeFrames - 1) * Milli, frameIdx + (dt * 60 * speed) \div Milli)
                   ELSE frameIdx
    /\ tDays' = tDays + (dt * 10 * speed) \div Milli
    /\ UNCHANGED <<ab, split, activeEp, playing, speed, planets, epsA, epsB, keydowns>>
    /\ UNCHANGED <<hookVars, loadVars, modalVars>>

\* Variant of the B key as in the legacy App (lines 1036-1041): no split
\* test, and no effect that resets the position.
KeyBLegacy ==
    /\ keydowns' = 1 - keydowns
    /\ ab' = IF ab = "A" THEN "B" ELSE "A"
    /\ UNCHANGED <<split, activeEp, frameIdx, playing, speed, tDays, planets, epsA, epsB>>
    /\ UNCHANGED <<hookVars, loadVars, modalVars>>

\* line 467, and the effect of line 424 that the change of ab triggers
KeyB ==
    /\ keydowns' = 1 - keydowns
    /\ IF ~split
       THEN /\ ab' = IF ab = "A" THEN "B" ELSE "A"
            /\ frameIdx' = 0
       ELSE UNCHANGED <<ab, frameIdx>>
    /\ UNCHANGED <<split, activeEp, playing, speed, tDays, planets, epsA, epsB>>
    /\ UNCHANGED <<hookVars, loadVars, modalVars>>

\* line 468
KeyS ==
    /\ keydowns' = 1 - keydowns
    /\ split' = ~split
    /\ UNCHANGED <<ab, activeEp, frameIdx, playing, speed, tDays, planets, epsA, epsB>>
    /\ UNCHANGED <<hookVars, loadVars, modalVars>>

\* line 469
KeySpace ==
    /\ keydowns' = 1 - keydowns
    /\ playing' = ~playing
    /\ UNCHANGED <<ab, split, activeEp, frameIdx, speed, tDays, planets, epsA, epsB>>
    /\ UNCHANGED <<hookVars, loadVars, modalVars>>

\* line 470: x || 0
OrZero(x) == IF x = 0 THEN 0 ELSE x

\* line 470
KeyArrowRight ==
    /\ keydowns' = 1 - keydowns
    /\ frameIdx' = Min(OrZero(Len(frames) - 1) * Milli, floor(frameIdx) + Milli)
    /\ UNCHANGED <<ab, split, activeEp, playing, speed, tDays, planets, epsA, epsB>>
    /\ UNCHANGED <<hookVars, loadVars, modalVars>>

\* line 471
KeyArrowLeft ==
    /\ keydowns' = 1 - keydowns
    /\ frameIdx' = Max(0, floor(frameIdx) - Milli)
    /\ UNCHANGED <<ab, split, activeEp, playing, speed, tDays, planets, epsA, epsB>>
    /\ UNCHANGED <<hookVars, loadVars, modalVars>>

\* lines 254-262, 507: the episode select of the Episode card, and the
\* effect of line 424 when the selection changes
SetActiveEp(i) ==
    /\ i \in 0..(Len(IF split THEN epsA ELSE eps) - 1)
    /\ activeEp' = i
    /\ frameIdx' = IF i # activeEp THEN 0 ELSE frameIdx
    /\ UNCHANGED <<ab, split, playing, speed, tDays, planets, epsA, epsB, keydowns>>
    /\ UNCHANGED <<hookVars, loadVars, modalVars>>

\* line 495: the frames PlaybackCard is given
cardFrames == IF split THEN LengthAt(epsA) ELSE Len(frames)

\* lines 159-165, 216-219: the Timeline slider, min 0, max
\* Math.max(0, frames.length - 1), onChange = setFrameIdx
Seek(i) ==
    /\ i \in 0..Max(0, cardFrames - 1)
    /\ frameIdx' = i * Milli
    /\ UNCHANGED <<ab, split, activeEp, playing, speed, tDays, planets, epsA, epsB, keydowns>>
    /\ UNCHANGED <<hookVars, loadVars, modalVars>>

\* PlaybackCard: the speed slider
SetSpeed(s) ==
    /\ speed' = s
    /\ UNCHANGED <<ab, split, activeEp, frameIdx, playing, tDays, planets, epsA, epsB, keydowns>>
    /\ UNCHANGED <<hookVars, loadVars, modalVars>>

\* line 416: the hook for run_01.json sets its episodes
LoadA(r) ==
    /\ epsA = <<>>
    /\ epsA' = r
    /\ UNCHANGED <<ab, split, activeEp, frameIdx, playing, speed, tDays, planets, epsB, keydowns>>
    /\ UNCHANGED <<hookVars, loadVars, modalVars>>

\* line 417: the hook for run_ppo.json sets its episodes
LoadB(r) ==
    /\ epsB = <<>>
    /\ epsB' = r
    /\ UNCHANGED <<ab, split, activeEp, frameIdx, playing, speed, tDays, planets, epsA, keydowns>>
    /\ UNCHANGED <<hookVars, loadVars, modalVars>>

(***************************************************************************)
(* Planets, src/src/Scene3D.jsx lines 78-131.  Angles are in millionths of *)
(* a radian, the angles of a planet record in hundredths of a degree, a    *)
(* and e in thousandths, the mean motion in millionths of a radian a day.  *)
(***************************************************************************)
muPlanets == 295912208
rad == 17453
TwoPi == 6283185
PathPoints == 360
eccScale == Milli
scaleAU == 1500

\* part_004 lines 43-48: the catalog loadPlanets falls back to
Fallback ==
    <<[name |-> "Mercury", a |-> 387, e |-> 206, i |-> 701, Omega |-> 4833, omega |-> 2912, M0 |-> 17480],
      [name |-> "Venus", a |-> 723, e |-> 7, i |-> 340, Omega |-> 7668, omega |-> 5488, M0 |-> 5042],
      [name |-> "Earth", a |-> 1000, e |-> 17, i |-> 0, Omega |-> -1126, omega |-> 10295, M0 |-> 10046],
      [name |-> "Mars", a |-> 1524, e |-> 93, i |-> 185, Omega |-> 4956, omega |-> 28650, M0 |-> 35545],
      [name |-> "Jupiter", a |-> 5203, e |-> 49, i |-> 130, Omega |-> 10046, omega |-> 27387, M0 |-> 2002],
      [name |-> "Saturn", a |-> 9555, e |-> 57, i |-> 249, Omega |-> 11367, omega |-> 33939, M0 |-> 31702]>>

\* a planets.json: the mean anomaly of the Earth given as -2.47 degrees, and
\* a planet a tenth of a degree before the end of its revolution
Fetched ==
    <<[name |-> "Earth", a |-> 1000, e |-> 17, i |-> 0, Omega |-> -1126, omega |-> 10295, M0 |-> -247],
      [name |-> "Mars", a |-> 1524, e |-> 93, i |-> 185, Omega |-> 4956, omega |-> 28650, M0 |-> 35990]>>

PlanetSets == {Fallback, Fetched}

\* Math.pow(a, 3) on thousandths
Cube(a) == (((a * a) \div Milli) * a) \div Milli

\* line 85: n = Math.sqrt(mu / Math.pow(p.a, 3))
MeanMotion(a) == Sqrt((muPlanets \div Cube(a)) * 10) * 10

\* the % of JavaScript: the result has the sign of the dividend
Rem(x, m) == IF x >= 0 THEN x % m ELSE 0 - ((0 - x) % m)

\* line 86: M = (p.M0 * rad + n * tDays) % (2 * Math.PI)
MeanAnomaly(p, t) == Rem((p.M0 * rad) \div 100 + (MeanMotion(p.a) * t) \div Milli, TwoPi)

\* lines 19-41: the position is kept as the term elementsToPositionAU(el);
\* its trigonometry is not evaluated
elementsToPositionAU(el) == [elementsToPositionAU |-> el]

\* rAU.map((v) => v * scaleAU)
Scaled(rAU, sc) == [times |-> sc, vec |-> rAU]

\* lines 84, 87: the elements passed to elementsToPositionAU, without M
Elements(p, ecc) ==
    [a |-> p.a,
     e |-> Min((p.e * ecc) \div Milli, 900),
     i |-> (p.i * rad) \div 100,
     Omega |-> (p.Omega * rad) \div 100,
     omega |-> (p.omega * rad) \div 100]

\* Variant of the path that closes the ellipse with a repeated end point.
OrbitPathClosed(el, sc) ==
    [k \in 1..(PathPoints + 1) |->
        Scaled(elementsToPositionAU(el @@ ("M" :> ((TwoPi \div 10) * (k - 1)) \div (PathPoints \div 10))), sc)]

\* lines 91-95: [...Array(360)].map((_, k) => ...), th = (2 * Math.PI * k) / 360
OrbitPath(el, sc) ==
    [k \in 1..PathPoints |->
        Scaled(elementsToPositionAU(el @@ ("M" :> ((TwoPi \div 10) * (k - 1)) \div (PathPoints \div 10))), sc)]

\* lines 83-96: what the map callback computes for the planet p
Planet(p, t, sc, ecc) ==
    LET el == Elements(p, ecc)
        M == MeanAnomaly(p, t)
    IN  [name |-> p.name,
         M |-> M,
         r |-> Scaled(elementsToPositionAU(el @@ ("M" :> M)), sc),
         path |-> OrbitPath(el, sc)]

\* lines 78-96
Planets(ps, t, sc, ecc) == [j \in 1..Len(ps) |-> Planet(ps[j], t, sc, ecc)]

\* part_004 line 413: loadPlanets resolves, to the planets of planets.json
\* or to the fallback catalog
LoadPlanets(ps) ==
    /\ planets = <<>>
    /\ planets' = ps
    /\ UNCHANGED <<ab, split, activeEp, frameIdx, playing, speed, tDays, epsA, epsB, keydowns>>
    /\ UNCHANGED <<hookVars, loadVars, modalVars>>

\* App is mounted; the hook instance of Spec is left where it starts
InitApp ==
    /\ pc = "loading"
    /\ rollout = <<>>
    /\ episodes = <<>>
    /\ metrics = <<>>
    /\ mets = <<>>
    /\ ep = 1
    /\ idx = 0
    /\ loc = InitLoc
    /\ err = "none"
    /\ AppMounted
    /\ NoLoads
    /\ ModalMounted

NextApp ==
    \/ \E dt \in Dts : Tick(dt)
    \/ KeyB
    \/ KeyS
    \/ KeySpace
    \/ KeyArrowRight
    \/ KeyArrowLeft
    \/ \E i \in 0..1 : SetActiveEp(i)
    \/ \E i \in 0..2 : Seek(i)
    \/ \E s \in Speeds : SetSpeed(s)
    \/ \E r \in RolloutsA : LoadA(r)
    \/ \E r \in RolloutsB : LoadB(r)
    \/ \E ps \in PlanetSets : LoadPlanets(ps)

SpecApp == InitApp /\ [][NextApp]_vars

(***************************************************************************)
(* Vocabulary of the properties                                             *)
(***************************************************************************)
\* lines 94-104: the tolerance classification of a frame
FrameInTol(f) == InTol(PosErrOf(f), VtanErrOf(f))

\* the classification of every frame of an episode
Classes(F) == [j \in 1..Len(F) |-> FrameInTol(F[j])]

\* the indices (1-based) of the events of one type in an event list
EventsOfType(evs, type) == {j \in 1..Len(evs) : evs[j].type = type}

\* a frame with the zero vector for a missing thrust and 0 for a missing reward
Completed(f) == f @@ [thrust |-> <<0, 0, 0>>, reward |-> 0]

\* lines 80-127 applied to one episode on its own: the locals after the first
\* n frames, and the metrics of the whole episode
RECURSIVE PassOver(_, _)
PassOver(F, n) == IF n = 0 THEN InitLoc ELSE Step(PassOver(F, n - 1), F[n], n - 1)

Analyse(F) == EpisodeMetrics(PassOver(F, Len(F)), F)

\* The explicit capture machine of the design notes (spec section 9): states
\* never_left_tolerance, excursion_seen and captured, driven by the per-frame
\* in-tolerance boolean b of frame i.
FsmInit == [state |-> "never_left_tolerance", streak |-> 0, captured_at |-> Null]

FsmStep(m, b, i) ==
    IF m.state = "captured" THEN m
    ELSE IF ~b THEN [state |-> "excursion_seen", streak |-> 0, captured_at |-> Null]
    ELSE IF m.state = "excursion_seen" /\ m.streak + 1 = K
         THEN [state |-> "captured", streak |-> K, captured_at |-> <<i - K + 1>>]
         ELSE [m EXCEPT !.streak = @ + 1]

\* the machine after the first n frames whose errors the pass recorded in sp
RECURSIVE FsmAfter(_, _)
FsmAfter(sp, n) ==
    IF n = 0 THEN FsmInit
    ELSE FsmStep(FsmAfter(sp, n - 1), InTol(sp.posErr[n].y, sp.vTanErr[n].y), n - 1)

(***************************************************************************)
(* Load effects that run again.  An element of effects is one run of a     *)
(* load effect: the url it fetches, the cancelled flag of its closure, and *)
(* its phase: loading, resolved or rejected.                                *)
(***************************************************************************)
MaxEffects == 3

Urls == {"/rollouts/run_01.json", "/rollouts/run_ppo.json"}

\* the episodes of the two rollout files
RolloutAt(u) ==
    IF u = "/rollouts/run_01.json" THEN <<<<FOut, FIn>>>> ELSE <<<<FIn, FIn>>, <<FInSpike>>>>

\* what a fetch of u may resolve to: the file, or a body with a frame
\* that lacks v
ResponsesOf(u) == {RolloutAt(u), <<<<[r |-> <<1000, 0, 0>>]>>>>}

NewEffect(u) == [url |-> u, cancelled |-> FALSE, phase |-> "loading"]

\* the hook is mounted with some url: its first effect is loading
InitCancel ==
    /\ pc = "loading"
    /\ rollout = <<>>
    /\ episodes = <<>>
    /\ metrics = <<>>
    /\ mets = <<>>
    /\ ep = 1
    /\ idx = 0
    /\ loc = InitLoc
    /\ err = "none"
    /\ AppMounted
    /\ ModalMounted
    /\ rolloutUrlState = "/rollouts/run_01.json"
    /\ \E u \in Urls : effects = <<NewEffect(u)>>

\* part_004 lines 136-137: url changes; the cleanup of the running effect
\* sets its cancelled, and the effect runs again with the new url
UrlChanges(u) ==
    /\ Len(effects) < MaxEffects
    /\ u # effects[Len(effects)].url
    /\ effects' = Append([effects EXCEPT ![Len(effects)].cancelled = TRUE], NewEffect(u))
    /\ UNCHANGED <<hookVars, appVars, modalVars, rolloutUrlState>>

\* lines 76-129: the load of effect i resolves to data.  A cancelled effect
\* returns; otherwise setEpisodes(data), then setMetrics(mets), or the catch
\* block if a frame makes the pass throw.
EffectResolves(i, data) ==
    /\ effects[i].phase = "loading"
    /\ effects' = [effects EXCEPT ![i].phase = "resolved"]
    /\ IF effects[i].cancelled
       THEN UNCHANGED <<episodes, metrics, err>>
       ELSE IF \E e \in 1..Len(data) : \E n \in 1..Len(data[e]) : Throws(data[e][n])
            THEN /\ episodes' = <<>>
                 /\ metrics' = <<>>
                 /\ err' = "TypeError"
            ELSE /\ episodes' = data
                 /\ metrics' = [e \in 1..Len(data) |-> Analyse(data[e])]
                 /\ UNCHANGED err
    /\ UNCHANGED <<pc, rollout, mets, ep, idx, loc, appVars, modalVars, rolloutUrlState>>

\* lines 29-30, 130-134: the load of effect i rejects; the catch block runs
EffectRejects(i) ==
    /\ effects[i].phase = "loading"
    /\ effects' = [effects EXCEPT ![i].phase = "rejected"]
    /\ episodes' = <<>>
    /\ metrics' = <<>>
    /\ err' = "fetch"
    /\ UNCHANGED <<pc, rollout, mets, ep, idx, loc, appVars, modalVars, rolloutUrlState>>

NextCancel ==
    \/ \E u \in Urls : UrlChanges(u)
    \/ \E i \in 1..Len(effects) : \E data \in ResponsesOf(effects[i].url) : EffectResolves(i, data)
    \/ \E i \in 1..Len(effects) : EffectRejects(i)

SpecCancel == InitCancel /\ [][NextCancel]_vars

(***************************************************************************)
(* The single-rollout App, part_003 lines 400-436: its load effect has no  *)
(* cancelled flag.                                                          *)
(***************************************************************************)
InitSingle ==
    /\ pc = "loading"
    /\ rollout = <<>>
    /\ episodes = <<>>
    /\ metrics = <<>>
    /\ mets = <<>>
    /\ ep = 1
    /\ idx = 0
    /\ loc = InitLoc
    /\ err = "none"
    /\ AppMounted
    /\ ModalMounted
    /\ rolloutUrlState = "/rollouts/run_01.json"
    /\ effects = <<NewEffect("/rollouts/run_01.json")>>

\* part_003 lines 313-320: the rollout selector; the effect of lines 428-436
\* runs again for the new url
SelectRollout(u) ==
    /\ Len(effects) < MaxEffects
    /\ u # rolloutUrlState
    /\ rolloutUrlState' = u
    /\ activeEp' = 0
    /\ frameIdx' = 0
    /\ effects' = Append(effects, NewEffect(u))
    /\ UNCHANGED <<hookVars, modalVars>>
    /\ UNCHANGED <<ab, split, playing, speed, tDays, planets, epsA, epsB, keydowns>>

\* part_003 line 489: the episode selector
SelectEpisode(i) ==
    /\ i \in 0..(Len(episodes) - 1)
    /\ i # activeEp
    /\ activeEp' = i
    /\ frameIdx' = 0
    /\ UNCHANGED <<hookVars, modalVars, loadVars>>
    /\ UNCHANGED <<ab, split, playing, speed, tDays, planets, epsA, epsB, keydowns>>

\* part_003 line 284: the Play/Pause button
TogglePlaying ==
    /\ playing' = ~playing
    /\ UNCHANGED <<hookVars, modalVars, loadVars>>
    /\ UNCHANGED <<ab, split, activeEp, frameIdx, speed, tDays, planets, epsA, epsB, keydowns>>

\* part_003 lines 429-434: loadRollout of effect i resolves
LoadResolves(i) ==
    /\ effects[i].phase = "loading"
    /\ effects' = [effects EXCEPT ![i].phase = "resolved"]
    /\ episodes' = RolloutAt(effects[i].url)
    /\ activeEp' = 0
    /\ frameIdx' = 0
    /\ UNCHANGED <<pc, rollout, metrics, mets, ep, idx, loc, err, modalVars, rolloutUrlState>>
    /\ UNCHANGED <<ab, split, playing, speed, tDays, planets, epsA, epsB, keydowns>>

\* part_003 line 435: loadRollout of effect i rejects; .catch(console.error)
LoadRejects(i) ==
    /\ effects[i].phase = "loading"
    /\ effects' = [effects EXCEPT ![i].phase = "rejected"]
    /\ UNCHANGED <<hookVars, appVars, modalVars, rolloutUrlState>>

NextSingle ==
    \/ \E u \in Urls : SelectRollout(u)
    \/ \E i \in 0..1 : SelectEpisode(i)
    \/ \E i \in 1..Len(effects) : LoadResolves(i)
    \/ \E i \in 1..Len(effects) : LoadRejects(i)
    \/ TogglePlaying

SpecSingle == InitSingle /\ [][NextSingle]_vars

(***************************************************************************)
(* MissionModal, src/components/MissionModal.jsx.  mission keeps the       *)
(* fields name, r_target and reward_weights (w_pos, w_fuel); numbers are   *)
(* in thousandths.  ask is Null, or holds the mission of the render whose  *)
(* askAI is awaiting its response.                                          *)
(***************************************************************************)
AiTexts ==
    { "{\"r_target\": 1.5}",
      "{\"name\": \"GEO hold\", \"reward_weights\": {\"w_fuel\": 0.1}}",
      "Sure! Here is the mission you asked for.",
      "null" }

\* JSON.parse on the texts above
JSONparse(text) ==
    CASE text = "{\"r_target\": 1.5}" ->
             [kind |-> "object", value |-> [r_target |-> 1500]]
      [] text = "{\"name\": \"GEO hold\", \"reward_weights\": {\"w_fuel\": 0.1}}" ->
             [kind |-> "object", value |-> [name |-> "GEO hold", reward_weights |-> [w_fuel |-> 100]]]
      [] text = "null" ->
             [kind |-> "null"]
      [] OTHER ->
             [kind |-> "SyntaxError"]

\* { ...a, ...b }
Spread(a, b) ==
    [k \in DOMAIN a \cup DOMAIN b |-> IF k \in DOMAIN b THEN b[k] ELSE a[k]]

\* parsed.reward_weights || {}
RewardWeightsOrEmpty(parsed) ==
    IF "reward_weights" \in DOMAIN parsed THEN parsed.reward_weights ELSE <<>>

\* lines 52-56: the updater given to setMission
ApplyParsed(m, parsed) ==
    [Spread(m, parsed) EXCEPT
        !.reward_weights = Spread(m.reward_weights, RewardWeightsOrEmpty(parsed))]

InitModal ==
    /\ pc = "loading"
    /\ rollout = <<>>
    /\ episodes = <<>>
    /\ metrics = <<>>
    /\ mets = <<>>
    /\ ep = 1
    /\ idx = 0
    /\ loc = InitLoc
    /\ err = "none"
    /\ AppMounted
    /\ NoLoads
    /\ ModalMounted

\* lines 84, 88: the tab buttons
SetTab(t) ==
    /\ t # tab
    /\ tab' = t
    /\ UNCHANGED <<mission, loadingAI, ask>>
    /\ UNCHANGED <<hookVars, appVars, loadVars>>

\* lines 66-68, with the inputs of lines 120 and 126 (Manual tab)
update(k, v) ==
    /\ tab = "manual"
    /\ mission[k] # v
    /\ mission' = [mission EXCEPT ![k] = v]
    /\ UNCHANGED <<loadingAI, tab, ask>>
    /\ UNCHANGED <<hookVars, appVars, loadVars>>

\* lines 69-71, with the inputs of lines 156 and 168
updateRW(k, v) ==
    /\ tab = "manual"
    /\ mission.reward_weights[k] # v
    /\ mission' = [mission EXCEPT !.reward_weights[k] = v]
    /\ UNCHANGED <<loadingAI, tab, ask>>
    /\ UNCHANGED <<hookVars, appVars, loadVars>>

\* lines 32-35, 105: the Suggest button of the AI tab, up to the await of
\* fetch; the closure keeps the mission of this render
askAI ==
    /\ tab = "ai"
    /\ ~loadingAI
    /\ loadingAI' = TRUE
    /\ ask' = <<mission>>
    /\ UNCHANGED <<mission, tab>>
    /\ UNCHANGED <<hookVars, appVars, loadVars>>

\* lines 48-63: the response arrives with data.text = text
Responds(text) ==
    /\ ask # Null
    /\ LET p == JSONparse(text)
           parsed == IF p.kind = "SyntaxError" THEN ask[1] ELSE p.value
       IN  IF p.kind = "null"
           THEN \* parsed.reward_weights throws a TypeError: outer catch
                UNCHANGED <<mission, tab>>
           ELSE /\ mission' = ApplyParsed(mission, parsed)
                /\ tab' = "manual"
    /\ loadingAI' = FALSE
    /\ ask' = Null
    /\ UNCHANGED <<hookVars, appVars, loadVars>>

\* lines 35, 48, 58-63: fetch or resp.json() rejects
RequestFails ==
    /\ ask # Null
    /\ loadingAI' = FALSE
    /\ ask' = Null
    /\ UNCHANGED <<mission, tab>>
    /\ UNCHANGED <<hookVars, appVars, loadVars>>

NextModal ==
    \/ \E t \in {"manual", "ai"} : SetTab(t)
    \/ \E v \in {"Station keeping @ 1 AU", "Hold 1.5 AU"} : update("name", v)
    \/ \E v \in {Milli, 1200} : update("r_target", v)
    \/ \E v \in {Milli, 2000} : updateRW("w_pos", v)
    \/ askAI
    \/ \E text \in AiTexts : Responds(text)
    \/ RequestFails

SpecModal == InitModal /\ [][NextModal]_vars

(***************************************************************************)
(* The legacy pass, part_004 lines 725-738                                  *)
(***************************************************************************)
\* lines 733-735: posErr <= tolR && Math.abs(f.v_tan_err ?? 0) <= tolV
LegacyInTol(f) ==
    InTol(PosErrOf(f), IF "v_tan_err" \in DOMAIN f THEN f.v_tan_err ELSE 0)

\* Variant of the legacy capture without the null test: the last
\* in-tolerance frame wins.
LegacyCaptureOverwrites(capturedAt, f, i) ==
    IF LegacyInTol(f) THEN <<i>> ELSE capturedAt

\* lines 735-739: capturedAt after the legacy callback has seen frame f at i
LegacyCapture(capturedAt, f, i) ==
    IF LegacyInTol(f) /\ capturedAt = Null THEN <<i>> ELSE capturedAt

\* lines 724-740: capturedAt after frames.forEach has seen the first n frames
RECURSIVE LegacyCapturedAt(_, _)
LegacyCapturedAt(F, n) ==
    IF n = 0 THEN Null ELSE LegacyCapture(LegacyCapturedAt(F, n - 1), F[n], n - 1)

\* the classification of the 0-based frame n that the pass recorded in sp
ClassAt(sp, n) == InTol(sp.posErr[n + 1].y, sp.vTanErr[n + 1].y)

(***************************************************************************)
(* Properties                                                               *)
(***************************************************************************)
\* C1: Debounced capture index.  For every analysed episode made of n >= 1
\* out-of-tolerance frames followed by at least K in-tolerance frames, the
\* reported capturedAt is n, the index of the first frame of the qualifying
\* run (idx - K + 1 at the frame idx where the streak reaches K), not the
\* frame at which the streak completes.
DebouncedCaptureIndex ==
    pc = "done" =>
        \A i \in 1..Len(metrics) :
            LET F == rollout[i]
                cls == Classes(F)
            IN  \A n \in 1..Len(F) :
                    (/\ Len(F) - n >= K
                     /\ \A j \in 1..n : ~cls[j]
                     /\ \A j \in (n + 1)..Len(F) : cls[j])
                    => /\ metrics[i].capturedAt = <<n>>
                       /\ \E j \in 1..Len(metrics[i].events) :
                              metrics[i].events[j] = [t |-> n, type |-> "entered_tol"]

\* C1 witness: 100 frames, out for 0-49 and in for 50-99, report capturedAt 50.
DebouncedCaptureReached ==
    /\ pc = "done"
    /\ rollout = <<Rep(FOut, 50) \o Rep(FIn, 50)>>
    /\ metrics[1].capturedAt = <<50>>

\* C2: No capture without a prior excursion.  An analysed episode all of
\* whose frames are in tolerance reports capturedAt = null and has no
\* entered_tol event, whatever its length.
NoCaptureWithoutExcursion ==
    pc = "done" =>
        \A i \in 1..Len(metrics) :
            (\A j \in 1..Len(rollout[i]) : FrameInTol(rollout[i][j]))
            => /\ metrics[i].capturedAt = Null
               /\ EventsOfType(metrics[i].events, "entered_tol") = {}

\* C2 witness: an episode of more than K frames, all in tolerance, is analysed.
AllInToleranceReached ==
    /\ pc = "done"
    /\ Len(metrics) = 1
    /\ Len(rollout[1]) > K
    /\ \A j \in 1..Len(rollout[1]) : FrameInTol(rollout[1][j])
    /\ metrics[1].len = Len(rollout[1])
    /\ metrics[1].capturedAt = Null

\* C3: capturedAt is write-once.  Once the pass has set capturedAt, no later
\* frame of the same episode changes it, and the event list holds exactly
\* one entered_tol event from then on.
CapturedAtWriteOnce ==
    [][(pc = "frames" /\ pc' = "frames" /\ ep' = ep /\ loc.capturedAt # Null)
       => /\ loc'.capturedAt = loc.capturedAt
          /\ Cardinality(EventsOfType(loc.events, "entered_tol")) = 1
          /\ Cardinality(EventsOfType(loc'.events, "entered_tol")) = 1]_vars

\* C3 witness: after a capture, a later excursion is followed by a new run
\* of K in-tolerance frames.
SecondQualifyingRunReached ==
    /\ pc = "frames"
    /\ loc.capturedAt # Null
    /\ loc.tolStreak >= K
    /\ idx - loc.tolStreak > loc.capturedAt[1] + K
\* C4: The events of every EpisodeMetrics the pass produces are ascending
\* by frame index: each event's index is <= the index of the event after it.
EventsAscending ==
    \A i \in 1..Len(mets) :
        \A j \in 1..(Len(mets[i].events) - 1) :
            mets[i].events[j].t <= mets[i].events[j + 1].t

\* C5: pctInTol is the number of frames classified in-tolerance over the
\* frame count, counting every such frame whether or not an excursion or a
\* capture has happened; it is 0 for an empty episode and lies in [0, 1].
PercentInTolerance ==
    pc = "done" =>
        \A i \in 1..Len(metrics) :
            LET F == rollout[i]
                cls == Classes(F)
                n == Cardinality({j \in 1..Len(F) : cls[j]})
                pct == metrics[i].pctInTol
            IN  /\ pct = IF Len(F) = 0 THEN <<0, 1>> ELSE Ratio(n, Len(F))
                /\ 0 <= pct[1]
                /\ pct[1] <= pct[2]
                /\ pct[2] > 0

\* C5 witness: 40 in-tolerance frames out of 100 give exactly 0.4 = 2/5.
FortyPercentReached ==
    /\ pc = "done"
    /\ rollout = <<Rep(FOut, 60) \o Rep(FIn, 40)>>
    /\ metrics[1].pctInTol = <<2, 5>>

\* C6: Empty episode.  A zero-frame episode yields, without the pass
\* raising, metrics with len 0, pctInTol 0, capturedAt null, no events and
\* zero sums.
EmptyEpisode ==
    /\ \A i \in 1..Len(mets) :
           rollout[i] = <<>>
           => /\ mets[i].len = 0
              /\ mets[i].pctInTol = <<0, 1>>
              /\ mets[i].capturedAt = Null
              /\ mets[i].events = <<>>
              /\ mets[i].rewardSum = 0
              /\ mets[i].fuelSum = 0
    /\ err = "TypeError" => rollout[ep] # <<>>
    /\ pc = "done" => \A i \in 1..Len(rollout) : rollout[i] = <<>> => mets[i] = metrics[i]

\* C6 witness: a rollout with an empty episode has been analysed to the end.
EmptyEpisodeReached ==
    /\ pc = "done"
    /\ \E i \in 1..Len(rollout) : rollout[i] = <<>> /\ metrics[i].len = 0
    /\ \E i \in 1..Len(rollout) : rollout[i] # <<>>
\* C7: Missing optional fields.  A frame that has r and v but no thrust
\* and/or no reward is processed, without the pass failing, exactly as the
\* same frame with thrust (0,0,0) and reward 0: it adds 0 to fuelSum and to
\* rewardSum, emits no thrust event and is still classified for tolerance.
MissingOptionalFields ==
    [][(/\ pc = "frames"
        /\ ep <= Len(rollout)
        /\ idx < Len(rollout[ep])
        /\ {"r", "v"} \subseteq DOMAIN rollout[ep][idx + 1]
        /\ ~({"thrust", "reward"} \subseteq DOMAIN rollout[ep][idx + 1]))
       => LET f == rollout[ep][idx + 1]
          IN  /\ pc' = "frames"
              /\ idx' = idx + 1
              /\ loc' = Step(loc, Completed(f), idx)
              /\ "thrust" \notin DOMAIN f
                 => /\ loc'.fuelSum = loc.fuelSum
                    /\ EventsOfType(loc'.events, "thrust")
                           = EventsOfType(loc.events, "thrust")
              /\ "reward" \notin DOMAIN f => loc'.rewardSum = loc.rewardSum
              /\ loc'.inTolCount
                     = IF FrameInTol(f) THEN loc.inTolCount + 1 ELSE loc.inTolCount]_vars

\* C7 witness: after frames that thrust and are rewarded, a frame without
\* thrust and without reward has been processed.
MissingFieldsFrameProcessed ==
    /\ pc = "frames"
    /\ ep <= Len(rollout)
    /\ idx >= 2
    /\ DOMAIN rollout[ep][idx] = {"r", "v"}
    /\ loc.fuelSum > 0
    /\ loc.rewardSum # 0
    /\ Len(loc.spark.fuel) = idx

\* C8: Thrust events.  The event list of an analysed episode holds a thrust
\* event with frame index i if and only if the thrust magnitude of frame i
\* is strictly greater than thrustSpike, and at most one per frame.
ThrustEvents ==
    \A i \in 1..Len(mets) :
        LET F == rollout[i]
            evs == mets[i].events
        IN  /\ \A j \in 1..Len(F) :
                   Cardinality({k \in 1..Len(evs) : evs[k] = [t |-> j - 1, type |-> "thrust"]})
                       = IF ThrOf(F[j]) > thrustSpike THEN 1 ELSE 0
            /\ \A k \in EventsOfType(evs, "thrust") : evs[k].t \in 0..(Len(F) - 1)

\* C8 witness: thrust (0.03,0,0), (0.01,0,0) and (0.02,0,0) against the
\* threshold 0.02 give one thrust event, at the first frame.
ThrustEventsReached ==
    /\ pc = "done"
    /\ Len(rollout) >= 1
    /\ rollout[1] = ThrustEpisode
    /\ metrics[1].events = <<[t |-> 0, type |-> "thrust"]>>

\* C9: Batch analytics is index-aligned and has no cross-episode state: the
\* metrics sequence is as long as the episode sequence, metrics[i].len is
\* the length of episodes[i], and metrics[i] is the result of analysing
\* episodes[i] alone.
BatchIndependent ==
    pc = "done" =>
        /\ Len(metrics) = Len(episodes)
        /\ \A i \in 1..Len(episodes) :
               /\ metrics[i].len = Len(episodes[i])
               /\ metrics[i] = Analyse(episodes[i])

\* C9 witness: an episode that ends captured, inside a streak, is followed
\* by an episode of K in-tolerance frames, which is not captured.
BatchReached ==
    /\ pc = "done"
    /\ Len(metrics) = 2
    /\ metrics[1].capturedAt # Null
    /\ Len(episodes[2]) >= K
    /\ \A j \in 1..Len(episodes[2]) : FrameInTol(episodes[2][j])
    /\ metrics[2].capturedAt = Null

\* C10: Precomputed error fields take priority.  The frame is counted as
\* in tolerance according to its pos_err and v_tan_err fields when it
\* carries them, a precomputed 0 included and whatever r and v say; a value
\* is recomputed from r and v only for a field that is absent.
PrecomputedPriority ==
    [][(/\ pc = "frames"
        /\ pc' = "frames"
        /\ ep' = ep
        /\ idx' = idx + 1)
       => LET f == rollout[ep][idx + 1]
              pe == IF "pos_err" \in DOMAIN f THEN f.pos_err ELSE Hypot(f.r) - R0
              ve == IF "v_tan_err" \in DOMAIN f THEN f.v_tan_err
                    ELSE stationKeepingErrors(f, R0).v_tan_err
          IN  /\ (loc'.inTolCount = loc.inTolCount + 1) <=> (pe <= tolR /\ Abs(ve) <= tolV)
              /\ (loc'.inTolCount = loc.inTolCount) <=> ~(pe <= tolR /\ Abs(ve) <= tolV)
              /\ loc'.spark.posErr[idx + 1].y = pe
              /\ loc'.spark.vTanErr[idx + 1].y = ve]_vars

\* C10 witness: a frame whose precomputed pos_err is 0 and whose r is out of
\* tolerance has been counted as in tolerance.
PrecomputedZeroReached ==
    /\ pc = "frames"
    /\ ep <= Len(rollout)
    /\ idx = 1
    /\ {"r", "pos_err"} \subseteq DOMAIN rollout[ep][1]
    /\ rollout[ep][1].pos_err = 0
    /\ Hypot(rollout[ep][1].r) - R0 > tolR
    /\ loc.inTolCount = 1
\* C15: Circular-orbit reference.  For r = (1,0,0), v = (0, v_circ, 0),
\* target radius 1 and mu = 1, stationKeepingErrors gives pos_err = 0,
\* v_rad = 0 and v_tan_err = 0 (v_tan = v_circ = 1), so the pass classifies
\* such a frame as in tolerance, as it would for any non-negative tolerances.
CircularOrbitReference ==
    (pc = "frames" /\ ep <= Len(rollout) /\ idx >= 1)
    => LET f == rollout[ep][idx]
       IN  (/\ {"r", "v"} \subseteq DOMAIN f
            /\ {"pos_err", "v_tan_err"} \cap DOMAIN f = {}
            /\ f.r = <<1000, 0, 0>>
            /\ f.v = <<0, 1000, 0>>)
           => LET er == stationKeepingErrors(f, 1000)
              IN  /\ er.pos_err = 0
                  /\ er.v_rad = 0
                  /\ er.v_circ = 1000
                  /\ er.v_tan = er.v_circ
                  /\ er.v_tan_err = 0
                  /\ \A tr \in {0, 1, tolR}, tv \in {0, 1, tolV} :
                         er.pos_err <= tr /\ Abs(er.v_tan_err) <= tv
                  /\ loc.spark.posErr[idx].y = 0
                  /\ loc.spark.vTanErr[idx].y = 0
                  /\ loc.tolStreak >= 1

\* C15 witness: a frame on the unit circle at circular speed, with no
\* precomputed errors, has been classified.
CircularFrameClassified ==
    /\ pc = "frames"
    /\ ep <= Len(rollout)
    /\ idx >= 1
    /\ rollout[ep][idx] = [r |-> <<1000, 0, 0>>, v |-> <<0, 1000, 0>>]
    /\ loc.inTolCount >= 1

\* C16: The analytics pass is side-effect-free on its input: no step of the
\* effect changes a frame of the rollout or the episode sequence, and once
\* set the episodes state stays the loaded rollout while the metrics are
\* built.
InputsUnchanged ==
    [][/\ rollout' = rollout
       /\ (pc = "frames" /\ pc' # "failed") => (episodes' = episodes /\ episodes' = rollout)
       /\ pc' = "done" => episodes' = rollout]_vars

\* C16 witness: the metrics of a rollout with frames have been computed and
\* the episodes state is the rollout as loaded.
InputsUnchangedReached ==
    /\ pc = "done"
    /\ Len(metrics) >= 1
    /\ Len(rollout[1]) >= 2
    /\ metrics[1].len = Len(rollout[1])
    /\ episodes = rollout

\* C20: The capture logic of the pass (tolStreak, seenOut, capturedAt and
\* the test seenOut && capturedAt == null && tolStreak >= K) agrees with
\* the explicit three-state machine run on the same in-tolerance booleans:
\* never_left_tolerance <=> !seenOut, excursion_seen <=> seenOut and
\* capturedAt == null, captured <=> capturedAt != null, with the same
\* captured_at; the streak never exceeds K - 1 uncaptured after an
\* excursion, so the test fires at a streak of exactly K.
CaptureMachineEquivalent ==
    (pc = "frames" /\ ep <= Len(rollout))
    => LET m == FsmAfter(loc.spark, idx)
       IN  /\ (m.state = "never_left_tolerance") <=> ~loc.seenOut
           /\ (m.state = "excursion_seen") <=> (loc.seenOut /\ loc.capturedAt = Null)
           /\ (m.state = "captured") <=> (loc.capturedAt # Null)
           /\ m.captured_at = loc.capturedAt
           /\ (loc.seenOut /\ loc.capturedAt = Null) => loc.tolStreak < K
           /\ (loc.seenOut /\ loc.capturedAt = Null) => loc.tolStreak = m.streak

\* C20 witness: an episode that starts in tolerance, leaves it and is then
\* captured has taken the machine through its three states.
CaptureMachineCaptured ==
    /\ pc = "frames"
    /\ idx >= 1
    /\ InTol(loc.spark.posErr[1].y, loc.spark.vTanErr[1].y)
    /\ loc.capturedAt # Null
    /\ FsmAfter(loc.spark, idx).state = "captured"
\* C11: Non-finite derived elements are never rendered: when
\* orbitalElements yields a non-finite a, e, |H| or energy for the current
\* frame, the Episode card shows the placeholder instead of the value.
NonFiniteNotRendered ==
    elements # Null
    => \A f \in {"a", "e", "hmag", "energy"} :
           ~isFinite(elements[1][f]) => EpisodeCard(elements)[f] = Placeholder

\* C12: For every planet record and every reachable solar time the mean
\* anomaly passed to the Kepler solver lies in [0, 2 pi), also when M0 is
\* negative.
MeanAnomalyWrapped ==
    \A j \in 1..Len(planets) :
        LET M == Planets(planets, tDays, scaleAU, eccScale)[j].M
        IN  0 <= M /\ M < TwoPi

\* C14: Orbit path sampling.  The path of every planet has exactly 360
\* positions, the k-th (k = 0..359) computed from the planet's elements at
\* mean anomaly 2 pi k / 360: the first at 0, the last below 2 pi.  The
\* expected position mentions neither M0 nor the solar time, so the path
\* is independent of both.
OrbitPathSampling ==
    \A j \in 1..Len(planets) :
        LET path == Planets(planets, tDays, scaleAU, eccScale)[j].path
            el == Elements([planets[j] EXCEPT !.M0 = 0], eccScale)
            th(k) == ((TwoPi \div 10) * k) \div 36
        IN  /\ DOMAIN path = 1..360
            /\ th(0) = 0
            /\ th(359) < TwoPi
            /\ \A k \in 0..359 :
                   path[k + 1] = Scaled(elementsToPositionAU(el @@ ("M" :> th(k))), scaleAU)

\* C14 witness: planets are shown at a solar time after the start, one of
\* them away from mean anomaly 0.
OrbitPathDrawn ==
    /\ Len(planets) >= 1
    /\ tDays > 0
    /\ Planets(planets, tDays, scaleAU, eccScale)[1].M # 0
    /\ DOMAIN Planets(planets, tDays, scaleAU, eccScale)[1].path = 1..360

\* the position clamped to the valid indices [0, max(0, frames.length - 1)]
ClampToFrames(x) == Max(0, Min(x, Max(0, Len(frames) - 1) * Milli))

\* C17: ArrowRight moves the position to floor(frameIdx) + 1 and ArrowLeft
\* to floor(frameIdx) - 1, kept within [0, max(0, frames.length - 1)], also
\* when the active episode has no frames.
ArrowKeyStepping ==
    [][/\ KeyArrowRight => frameIdx' = ClampToFrames(floor(frameIdx) + Milli)
       /\ KeyArrowLeft => frameIdx' = ClampToFrames(floor(frameIdx) - Milli)]_vars

\* C18 as stated: every press of B switches the policy and resets the
\* position to 0.
BAlwaysToggles ==
    [][KeyB => (ab' # ab /\ frameIdx' = 0)]_vars

\* C18: While split view is off, a press of B switches the policy between
\* A and B (so two presses restore it) and resets the position to 0; while
\* split view is on, B changes neither the policy nor the position.
BTogglesOutsideSplit ==
    [][KeyB => /\ ab \in {"A", "B"} /\ ab' \in {"A", "B"}
               /\ ~split => (ab' # ab /\ frameIdx' = 0)
               /\ split => (ab' = ab /\ frameIdx' = frameIdx)]_vars

\* C18 witness: B was pressed in single view after the playback had left
\* frame 0 of a loaded episode; policy B is shown from position 0.
BToggled ==
    /\ ab = "B"
    /\ ~split
    /\ keydowns = 1
    /\ tDays > 0
    /\ Len(epsA) >= 1
    /\ frameIdx = 0

\* C19: Space flips playing; while playing is false a tick leaves frameIdx
\* unchanged; the solar time advances by dt * 10 * speed on every tick,
\* playing or not.
PlayPause ==
    [][/\ KeySpace => playing' = ~playing
       /\ \A dt \in Dts :
              Tick(dt) => /\ ~playing => frameIdx' = frameIdx
                          /\ tDays' = tDays + (dt * 10 * speed) \div Milli
                          /\ tDays' > tDays]_vars

\* C19 witness: paused before the end of a loaded episode, with the solar
\* time advanced.
PausedWhileTimeRuns ==
    /\ ~playing
    /\ tDays > 0
    /\ Len(frames) >= 2
    /\ frameIdx < (Len(frames) - 1) * Milli
\* C21: Tie order and no dedup.  Whenever a thrust event and the
\* entered_tol event carry the same frame index, the thrust event is
\* earlier in the events list, and both are retained: every spike frame
\* seen has its thrust event and a capture has its entered_tol event.
TieOrderNoDedup ==
    (pc = "frames" /\ ep <= Len(rollout))
    => LET evs == loc.events
       IN  /\ \A i, j \in 1..Len(evs) :
                  (evs[i].type = "thrust" /\ evs[j].type = "entered_tol" /\ evs[i].t = evs[j].t)
                  => i < j
           /\ \A n \in 1..idx :
                  IsSpike(loc.spark.fuel[n].y)
                  => \E j \in 1..Len(evs) : evs[j] = [t |-> n - 1, type |-> "thrust"]
           /\ loc.capturedAt # Null
              => \E j \in 1..Len(evs) : evs[j] = [t |-> loc.capturedAt[1], type |-> "entered_tol"]

\* C21 witness: the first frame of the captured run is a thrust spike, so
\* the events list holds a thrust and an entered_tol event with one index.
TieReached ==
    /\ pc = "frames"
    /\ loc.capturedAt # Null
    /\ \E i, j \in 1..Len(loc.events) :
           /\ loc.events[i].type = "thrust"
           /\ loc.events[j].type = "entered_tol"
           /\ loc.events[i].t = loc.events[j].t

\* C22: Two capture conventions.  On an episode whose frames the legacy
\* and the current pass classify alike, whenever the debounced capturedAt
\* is non-null the legacy capturedAt is non-null and not greater; and on a
\* non-empty episode that never leaves tolerance the legacy capturedAt is
\* 0 while the debounced one is null.
TwoCaptureConventions ==
    (/\ pc = "frames"
     /\ ep <= Len(rollout)
     /\ idx = Len(rollout[ep])
     /\ \A n \in 1..idx : LegacyInTol(rollout[ep][n]) = ClassAt(loc.spark, n - 1))
    => LET legacy == LegacyCapturedAt(rollout[ep], idx)
       IN  /\ loc.capturedAt # Null => (legacy # Null /\ legacy[1] <= loc.capturedAt[1])
           /\ (idx >= 1 /\ ~loc.seenOut) => (legacy = <<0>> /\ loc.capturedAt = Null)

\* C22 witness: an episode on which the two conventions differ, the legacy
\* index being smaller than the debounced one.
ConventionsDiffer ==
    /\ pc = "frames"
    /\ ep <= Len(rollout)
    /\ idx = Len(rollout[ep])
    /\ loc.capturedAt # Null
    /\ \A n \in 1..idx : LegacyInTol(rollout[ep][n]) = ClassAt(loc.spark, n - 1)
    /\ LegacyCapturedAt(rollout[ep], idx) # Null
    /\ LegacyCapturedAt(rollout[ep], idx)[1] < loc.capturedAt[1]

QualifiesAt(sp, n, c) ==
    /\ c >= 1
    /\ c + K - 1 <= n - 1
    /\ ~ClassAt(sp, c - 1)
    /\ \A k \in 0..(K - 1) : ClassAt(sp, c + k)

\* C24: Shape of a capture.  Whenever capturedAt = c is non-null, c >= 1,
\* frame c - 1 is out of tolerance, frames c .. c + K - 1 exist and are in
\* tolerance, and no earlier index qualifies in the same way.
CaptureShape ==
    (pc = "frames" /\ ep <= Len(rollout) /\ loc.capturedAt # Null)
    => LET c == loc.capturedAt[1]
       IN  /\ QualifiesAt(loc.spark, idx, c)
           /\ c + K - 1 <= Len(rollout[ep]) - 1
           /\ \A c1 \in 1..(c - 1) : ~QualifiesAt(loc.spark, idx, c1)

\* C24 witness: a capture at an index after an earlier, shorter in-tolerance
\* run that did not qualify.
CaptureAfterShortRun ==
    /\ pc = "frames"
    /\ ep <= Len(rollout)
    /\ loc.capturedAt # Null
    /\ loc.capturedAt[1] >= 3
    /\ ClassAt(loc.spark, 1)
    /\ ~ClassAt(loc.spark, 0)
\* C25: Cancelled loads never write.  Once the cleanup of an effect has
\* set its cancelled flag, the completion of its load, by success or by
\* failure, changes neither episodes nor metrics.
CancelledNeverWrites ==
    [][\A i \in 1..Len(effects) :
           (effects[i].cancelled /\ effects'[i].phase # effects[i].phase)
           => (episodes' = episodes /\ metrics' = metrics)]_vars

\* C26: Latest selection wins.  In the single-rollout App, once every
\* fetch has completed (here: successfully) the displayed episodes are
\* those of the selected rollout URL.
LatestSelectionWins ==
    (\A i \in 1..Len(effects) : effects[i].phase = "resolved")
    => episodes = RolloutAt(rolloutUrlState)
\* C27: Playback position invariant.  Under any interleaving of ticks,
\* timeline seeks, arrow keys, episode changes, A/B and split toggles,
\* play/pause and rollout loads, 0 <= frameIdx <= max(0, N-1), N the
\* length of the displayed episode.
PlaybackPositionInRange ==
    /\ 0 <= frameIdx
    /\ frameIdx <= Max(0, Len(frames) - 1) * Milli

\* C28: Playback runs to the end and stops.  While playing with speed > 0
\* and a non-empty episode, a tick with non-negative dt never decreases
\* frameIdx.
TickNeverDecreases ==
    [][\A dt \in Dts :
           (Tick(dt) /\ playing /\ speed > 0 /\ Len(frames) > 0)
           => frameIdx' >= frameIdx]_vars
\* C29: A failed askAI leaves the mission untouched.  When the request
\* fails or the response text is not valid JSON, mission after the call
\* equals mission just before the response was handled, edits made while
\* the request was in flight included, and loadingAI is false again.
AskFailureLeavesMission ==
    [][(\/ RequestFails
        \/ \E text \in AiTexts : JSONparse(text).kind = "SyntaxError" /\ Responds(text))
       => (mission' = mission /\ loadingAI' = FALSE)]_vars

====
